---- MODULE Spec2Model ----
(***************************************************************************)
(* blit-protected (src/blit.c): a one-shot copy of a decoded image         *)
(*   source buffer -> protected image -> destination buffer -> PNG file    *)
(* through a protected Vulkan queue.                                       *)
(*                                                                         *)
(* The host program is straight-line code; every Vulkan call is one step.  *)
(* The code never looks at a VkResult outside the g_assert of line 87, so  *)
(* a failing call leaves its output handle as it was and the host goes on. *)
(* A call that is handed a VK_NULL_HANDLE / an indeterminate local is      *)
(* undefined behaviour: the model lets it either kill the process          *)
(* (pc = "crashed") or return without effect.                              *)
(***************************************************************************)
EXTENDS Integers, Sequences, FiniteSets, TLC

(***************************************************************************)
(* Bounds of the model.                                                    *)
(***************************************************************************)
MaxTypes == 2        \* memoryTypeCount of the tables of the classifier harness
MaxDevices == 2      \* physical devices an enumeration reports
MaxW == 2            \* width  of a decoded input image, in pixels
MaxH == 2            \* height of a decoded input image, in pixels
MaxFailures == 1     \* Vulkan calls that fail for an environmental reason in one run

VK_NULL_HANDLE == 0

DEVICE_LOCAL == "DEVICE_LOCAL"
HOST_VISIBLE == "HOST_VISIBLE"
PROTECTED == "PROTECTED"
PropertyFlags == SUBSET {DEVICE_LOCAL, HOST_VISIBLE, PROTECTED}

(***************************************************************************)
(* Bit arithmetic on the unsigned mask `allowed`.                          *)
(***************************************************************************)
Pow2(i) == 2 ^ i
BitSet(mask, i) == (mask \div Pow2(i)) % 2 = 1

(***************************************************************************)
(* find_image_memory, lines 55-67.                                         *)
(*   flags = DEVICE_LOCAL | (host ? HOST_VISIBLE : 0)                      *)
(*                        | (protected ? PROTECTED : 0)                    *)
(*   for (i = 0; (1u << i) <= allowed && i <= memoryTypeCount; ++i)        *)
(*      if ((allowed & (1u << i)) && (memoryTypes[i].propertyFlags & flags))*)
(*         return i;                                                       *)
(*   return -1;                                                            *)
(* mp.memoryTypes is a function on 0..mp.memoryTypeCount: the entries the  *)
(* device reported plus the array slot that follows them.                  *)
(***************************************************************************)
WantedFlags(host, protected) ==
    {DEVICE_LOCAL} \cup (IF host THEN {HOST_VISIBLE} ELSE {})
                   \cup (IF protected THEN {PROTECTED} ELSE {})

\* the test of line 63 on entry i: a non-zero bitwise AND
EntryMatches(propertyFlags, flags) == (propertyFlags \cap flags) # {}

LoopContinues(mp, allowed, i) == Pow2(i) <= allowed /\ i <= mp.memoryTypeCount

RECURSIVE find_scan(_, _, _, _, _)
find_scan(mp, allowed, flags, i, read) ==
    IF LoopContinues(mp, allowed, i)
    THEN IF BitSet(allowed, i)
         THEN IF EntryMatches(mp.memoryTypes[i], flags)
              THEN [ret |-> i, read |-> read \cup {i}]
              ELSE find_scan(mp, allowed, flags, i + 1, read \cup {i})
         ELSE find_scan(mp, allowed, flags, i + 1, read)
    ELSE [ret |-> -1, read |-> read]

\* the value returned
find_image_memory(mp, allowed, host, protected) ==
    find_scan(mp, allowed, WantedFlags(host, protected), 0, {}).ret

\* the indices i whose memoryTypes[i] the scan read
find_image_memory_reads(mp, allowed, host, protected) ==
    find_scan(mp, allowed, WantedFlags(host, protected), 0, {}).read


(***************************************************************************)
(* State.                                                                  *)
(*   vc     struct data (lines 33-53), zero-initialised at line 271        *)
(*   loc    the locals of init_vk, init_image, write_image_output and main *)
(*   the rest is what the Vulkan implementation, the device and the file   *)
(*   system hold, and the trace of calls the host has made.                *)
(***************************************************************************)
VARIABLES
    pc,        \* the call site the host executes next
    argc,      \* main's argc
    vc,        \* struct data
    loc,       \* locals: pd, requirements, map, cmd_buffer, pixbuf
    gpu,       \* what the physical device behind vc.physical_device reports
    mem,       \* VkDeviceMemory objects; the handle of mem[h] is h
    mapped,    \* the VkDeviceMemory currently mapped by the host, or 0
    bound,     \* the memory each resource is bound to, or 0
    image,     \* texels of dst_image, <<>> while its content is undefined
    layout,    \* layout of dst_image on the device
    cbstate,   \* lifecycle state of cmd_buffer
    cmds,      \* commands recorded into cmd_buffer
    work,      \* submitted commands the device has not executed yet
    devlog,    \* what the device has executed, with the layout it saw
    file,      \* the output file
    stderr,    \* diagnostics written
    calls,     \* the calls the host has made, in order
    nfail,     \* calls that failed for an environmental reason
    input,     \* the decoded input image (kept for comparison)
    probe,     \* classifier harness: the arguments of a call
    found      \* classifier harness: what the call returned and read

vars == <<pc, argc, vc, loc, gpu, mem, mapped, bound, image, layout, cbstate,
          cmds, work, devlog, file, stderr, calls, nfail, input, probe, found>>

\* everything but pc and calls
rest == <<argc, vc, loc, gpu, mem, mapped, bound, image, layout, cbstate,
          cmds, work, devlog, file, stderr, nfail, input, probe, found>>

\* everything but pc, calls and nfail
rest_nf == <<argc, vc, loc, gpu, mem, mapped, bound, image, layout, cbstate,
             cmds, work, devlog, file, stderr, input, probe, found>>

Terminal == {"done", "aborted", "crashed"}

INDETERMINATE == -1      \* an uninitialised local / a handle no call has set

NoTable == [memoryTypeCount |-> 0, memoryTypes |-> [i \in 0..0 |-> {}]]
NoRequirements == [init |-> FALSE, size |-> 0, memoryTypeBits |-> 0]
NoPixbuf == [width |-> 0, height |-> 0, rowstride |-> 0, byte_length |-> 0,
             pixels |-> <<>>]
NoGpu == [protectedMemory |-> FALSE, queueFamilies |-> <<>>]
NoFile == [written |-> FALSE, width |-> 0, height |-> 0, pixels |-> <<>>]

\* struct data data = {} (line 271)
ZeroData ==
    [instance |-> VK_NULL_HANDLE, physical_device |-> VK_NULL_HANDLE,
     memory_properties |-> NoTable,
     device |-> VK_NULL_HANDLE, queue |-> VK_NULL_HANDLE,
     cmd_pool |-> VK_NULL_HANDLE,
     src_buffer |-> VK_NULL_HANDLE, src_mem |-> VK_NULL_HANDLE,
     dst_image |-> VK_NULL_HANDLE, dst_image_mem |-> VK_NULL_HANDLE,
     dst_buffer |-> VK_NULL_HANDLE, dst_mem |-> VK_NULL_HANDLE,
     width |-> 0, height |-> 0, row_stride |-> 0, size |-> 0]

NoLocals ==
    [pd |-> <<>>, requirements |-> NoRequirements, map |-> INDETERMINATE,
     cmd_buffer |-> INDETERMINATE, pixbuf |-> NoPixbuf]

\* nothing allocated, recorded, submitted or written yet
NothingYet ==
    /\ loc = NoLocals
    /\ gpu = NoGpu
    /\ mem = <<>>
    /\ mapped = 0
    /\ bound = [src_buffer |-> 0, dst_image |-> 0, dst_buffer |-> 0]
    /\ image = <<>>
    /\ layout = "none"
    /\ cbstate = "none"
    /\ cmds = <<>>
    /\ work = <<>>
    /\ devlog = <<>>
    /\ file = NoFile
    /\ stderr = <<>>
    /\ calls = <<>>
    /\ nfail = 0
    /\ input = NoPixbuf

\* argc counts the program name: 3 is <program> <input-file> <output-file>
Init ==
    /\ pc = "main"
    /\ argc \in 1..3
    /\ vc = ZeroData
    /\ NothingYet
    /\ probe = [allowed |-> 0, host |-> FALSE, protected |-> FALSE]
    /\ found = [called |-> FALSE, ret |-> -1, read |-> {}]

(***************************************************************************)
(* How a call ends.                                                        *)
(***************************************************************************)
Call(op, a, ok) == [op |-> op, a |-> a, ok |-> ok]

\* the call returns an error the environment caused; the host goes on to next
EnvFail(op, a, next) ==
    /\ nfail < MaxFailures
    /\ nfail' = nfail + 1
    /\ calls' = Append(calls, Call(op, a, FALSE))
    /\ pc' = next
    /\ UNCHANGED rest_nf

\* the call was handed an invalid handle: it kills the process or has no effect
Undefined(op, a, next) ==
    /\ calls' = Append(calls, Call(op, a, FALSE))
    /\ pc' \in {"crashed", next}
    /\ UNCHANGED rest

(***************************************************************************)
(* main, lines 274-275: the argument check.  g_error aborts.               *)
(***************************************************************************)
\* a check that lets a single argument through
EnoughArguments_OffByOne(n) == ~(n < 2)

EnoughArguments(n) == ~(n < 3)

Main_CheckArguments ==
    /\ pc = "main"
    /\ IF EnoughArguments(argc)
       THEN pc' = "vkCreateInstance" /\ UNCHANGED stderr
       ELSE /\ pc' = "aborted"
            /\ stderr' = Append(stderr, "Require 2 arguments : input_file output_file")
    /\ UNCHANGED <<argc, vc, loc, gpu, mem, mapped, bound, image, layout, cbstate,
                   cmds, work, devlog, file, calls, nfail, input, probe, found>>

(***************************************************************************)
(* init_vk, lines 69-137.                                                  *)
(***************************************************************************)
GRAPHICS == "GRAPHICS"
QueueFamilyLists == {<<>>, <<{}>>, <<{GRAPHICS}>>, <<{}, {GRAPHICS}>>}
PhysicalDevices == [protectedMemory : BOOLEAN, queueFamilies : QueueFamilyLists]
DeviceLists == UNION {[1..n -> PhysicalDevices] : n \in 0..MaxDevices}

\* lines 72-83; the result is dropped
Init_vkCreateInstance ==
    /\ pc = "vkCreateInstance"
    /\ \/ /\ vc' = [vc EXCEPT !.instance = 1]
          /\ calls' = Append(calls, Call("vkCreateInstance", 0, TRUE))
          /\ pc' = "vkEnumeratePhysicalDevices"
          /\ UNCHANGED <<argc, loc, gpu, mem, mapped, bound, image, layout, cbstate,
                         cmds, work, devlog, file, stderr, nfail, input, probe, found>>
       \/ EnvFail("vkCreateInstance", 0, "vkEnumeratePhysicalDevices")

\* lines 85-87: g_assert(res == VK_SUCCESS && count > 0)
EnumerationOk(success, count) == success /\ count > 0

Init_vkEnumeratePhysicalDevices ==
    /\ pc = "vkEnumeratePhysicalDevices"
    /\ \/ /\ vc.instance # VK_NULL_HANDLE
          /\ \E devs \in DeviceLists :
                /\ loc' = [loc EXCEPT !.pd = devs]
                /\ calls' = Append(calls, Call("vkEnumeratePhysicalDevices", Len(devs), TRUE))
                /\ pc' = IF EnumerationOk(TRUE, Len(devs)) THEN "pd[0]" ELSE "aborted"
          /\ UNCHANGED <<argc, vc, gpu, mem, mapped, bound, image, layout, cbstate,
                         cmds, work, devlog, file, stderr, nfail, input, probe, found>>
       \/ /\ vc.instance # VK_NULL_HANDLE
          /\ nfail < MaxFailures
          /\ nfail' = nfail + 1
          /\ calls' = Append(calls, Call("vkEnumeratePhysicalDevices", 0, FALSE))
          /\ pc' = IF EnumerationOk(FALSE, 0) THEN "pd[0]" ELSE "aborted"
          /\ UNCHANGED rest_nf
       \/ /\ vc.instance = VK_NULL_HANDLE
          /\ calls' = Append(calls, Call("vkEnumeratePhysicalDevices", 0, FALSE))
          /\ pc' \in {"crashed", IF EnumerationOk(FALSE, 0) THEN "pd[0]" ELSE "aborted"}
          /\ UNCHANGED rest

\* lines 88-90: the array is filled and vc->physical_device = pd[0]
SelectPhysicalDevice(count) == 1

Init_SelectPhysicalDevice ==
    /\ pc = "pd[0]"
    /\ \/ /\ vc' = [vc EXCEPT !.physical_device = SelectPhysicalDevice(Len(loc.pd))]
          /\ gpu' = loc.pd[SelectPhysicalDevice(Len(loc.pd))]
          /\ calls' = Append(calls, Call("vkEnumeratePhysicalDevices", Len(loc.pd), TRUE))
          /\ pc' = "vkGetPhysicalDeviceFeatures2"
          /\ UNCHANGED <<argc, loc, mem, mapped, bound, image, layout, cbstate,
                         cmds, work, devlog, file, stderr, nfail, input, probe, found>>
       \/ \* the second call fails: pd[0] is never written
          /\ nfail < MaxFailures
          /\ nfail' = nfail + 1
          /\ vc' = [vc EXCEPT !.physical_device = INDETERMINATE]
          /\ calls' = Append(calls, Call("vkEnumeratePhysicalDevices", 0, FALSE))
          /\ pc' = "vkGetPhysicalDeviceFeatures2"
          /\ UNCHANGED <<argc, loc, gpu, mem, mapped, bound, image, layout, cbstate,
                         cmds, work, devlog, file, stderr, input, probe, found>>

\* lines 93-102: g_assert(protected_features.protectedMemory); the struct is
\* zero-initialised, so a query that has no effect leaves the feature off
Init_vkGetPhysicalDeviceFeatures2 ==
    /\ pc = "vkGetPhysicalDeviceFeatures2"
    /\ \/ /\ vc.physical_device # INDETERMINATE
          /\ calls' = Append(calls, Call("vkGetPhysicalDeviceFeatures2", 0, TRUE))
          /\ pc' = IF gpu.protectedMemory THEN "vkGetPhysicalDeviceMemoryProperties"
                   ELSE "aborted"
       \/ /\ vc.physical_device = INDETERMINATE
          /\ calls' = Append(calls, Call("vkGetPhysicalDeviceFeatures2", 0, FALSE))
          /\ pc' \in {"crashed", "aborted"}
    /\ UNCHANGED rest


fixed == <<argc, probe, found>>
devstate == <<image, layout, work, devlog>>
output == <<file, stderr>>

(***************************************************************************)
(* Memory-type tables a device with protected memory reports (line 108).   *)
(* Entry memoryTypeCount is the array slot after the reported ones; the    *)
(* struct is zero-initialised at line 271.                                 *)
(***************************************************************************)
Table(types) ==
    [memoryTypeCount |-> Len(types),
     memoryTypes |-> [i \in 0..Len(types) |-> IF i < Len(types) THEN types[i + 1] ELSE {}]]

DeviceTables ==
    { Table(<<{DEVICE_LOCAL, HOST_VISIBLE}, {DEVICE_LOCAL, PROTECTED}>>),
      Table(<<{DEVICE_LOCAL}, {DEVICE_LOCAL, HOST_VISIBLE}, {DEVICE_LOCAL, PROTECTED}>>),
      Table(<<{DEVICE_LOCAL, PROTECTED}, {HOST_VISIBLE}, {DEVICE_LOCAL}>>) }

MaskOf(S) == LET RECURSIVE sum(_)
                 sum(T) == IF T = {} THEN 0
                           ELSE LET i == CHOOSE x \in T : TRUE
                                IN Pow2(i) + sum(T \ {i})
             IN sum(S)

TypesWith(mp, flag) ==
    {i \in 0..(mp.memoryTypeCount - 1) : flag \in mp.memoryTypes[i]}
TypesWithout(mp, flag) ==
    {i \in 0..(mp.memoryTypeCount - 1) : flag \notin mp.memoryTypes[i]}

\* memoryTypeBits an implementation reports for an unprotected buffer: some
\* unprotected types, a host-visible one among them
BufferTypeBits(mp) ==
    {MaskOf(S) : S \in {T \in SUBSET TypesWithout(mp, PROTECTED) :
                           T \cap TypesWith(mp, HOST_VISIBLE) # {}}}

\* memoryTypeBits an implementation reports for a protected image: protected types
ImageTypeBits(mp) ==
    {MaskOf(S) : S \in (SUBSET TypesWith(mp, PROTECTED)) \ {{}}}

\* lines 104-108
Init_vkGetPhysicalDeviceMemoryProperties ==
    /\ pc = "vkGetPhysicalDeviceMemoryProperties"
    /\ \E mp \in DeviceTables : vc' = [vc EXCEPT !.memory_properties = mp]
    /\ calls' = Append(calls, Call("vkGetPhysicalDeviceMemoryProperties", 0, TRUE))
    /\ pc' = "vkGetPhysicalDeviceQueueFamilyProperties"
    /\ UNCHANGED <<fixed, devstate, output, loc, gpu, mem, mapped, bound, cbstate,
                   cmds, nfail, input>>

\* a check that accepts graphics support in any family
QueueFamilyOk_AnyFamily(props) == \E i \in 1..Len(props) : GRAPHICS \in props[i]

\* lines 110-114: g_assert(count > 0); g_assert(props[0].queueFlags & GRAPHICS)
QueueFamilyOk(props) == Len(props) > 0 /\ GRAPHICS \in props[1]

Init_vkGetPhysicalDeviceQueueFamilyProperties ==
    /\ pc = "vkGetPhysicalDeviceQueueFamilyProperties"
    /\ calls' = Append(calls, Call("vkGetPhysicalDeviceQueueFamilyProperties", 0, TRUE))
    /\ pc' = IF QueueFamilyOk(gpu.queueFamilies) THEN "vkCreateDevice" ELSE "aborted"
    /\ UNCHANGED rest

\* lines 116-134: one protected queue of family 0; the result is dropped
Init_vkCreateDevice ==
    /\ pc = "vkCreateDevice"
    /\ \/ /\ vc' = [vc EXCEPT !.device = 1]
          /\ calls' = Append(calls, Call("vkCreateDevice", 0, TRUE))
          /\ pc' = "vkGetDeviceQueue"
          /\ UNCHANGED <<fixed, devstate, output, loc, gpu, mem, mapped, bound,
                         cbstate, cmds, nfail, input>>
       \/ EnvFail("vkCreateDevice", 0, "vkGetDeviceQueue")

\* line 136, then init_vk returns and its array pd is gone
Init_vkGetDeviceQueue ==
    /\ pc = "vkGetDeviceQueue"
    /\ \/ /\ vc.device # VK_NULL_HANDLE
          /\ vc' = [vc EXCEPT !.queue = 1]
          /\ calls' = Append(calls, Call("vkGetDeviceQueue", 0, TRUE))
          /\ pc' = "gdk_pixbuf_new_from_file"
       \/ /\ vc.device = VK_NULL_HANDLE
          /\ UNCHANGED vc
          /\ calls' = Append(calls, Call("vkGetDeviceQueue", 0, FALSE))
          /\ pc' \in {"crashed", "gdk_pixbuf_new_from_file"}
    /\ loc' = [loc EXCEPT !.pd = <<>>]
    /\ UNCHANGED <<fixed, devstate, output, gpu, mem, mapped, bound, cbstate,
                   cmds, nfail, input>>

(***************************************************************************)
(* The decoder, lines 143-153.  A pixbuf with alpha has 4 channels of 8    *)
(* bits; its rows are aligned to 4 bytes and its byte length is            *)
(* (height - 1) * rowstride + width * n_channels.                          *)
(***************************************************************************)
n_channels == 4
Rowstride(width) == ((width * n_channels + 3) \div 4) * 4
ByteLength(width, height) == (height - 1) * Rowstride(width) + width * n_channels

\* a pattern whose bytes all differ, and differ from the fill bytes below
Seeds == {17}
PixelByte(seed, k) == (seed + 85 * k) % 256

Decode(width, height, seed) ==
    [width |-> width, height |-> height, rowstride |-> Rowstride(width),
     byte_length |-> ByteLength(width, height),
     pixels |-> [k \in 1..ByteLength(width, height) |-> PixelByte(seed, k - 1)]]

Images == {Decode(w, h, s) : w \in 1..MaxW, h \in 1..MaxH, s \in Seeds}

Image_gdk_pixbuf_new_from_file ==
    /\ pc = "gdk_pixbuf_new_from_file"
    /\ \/ \E pixbuf \in Images :
            /\ loc' = [loc EXCEPT !.pixbuf = pixbuf]
            /\ input' = pixbuf
            /\ vc' = [vc EXCEPT !.width = pixbuf.width, !.height = pixbuf.height,
                                !.row_stride = pixbuf.rowstride,
                                !.size = pixbuf.byte_length]
            /\ pc' = "src.vkCreateBuffer"
            /\ UNCHANGED stderr
       \/ /\ stderr' = Append(stderr, "error->message")
          /\ pc' = "aborted"
          /\ UNCHANGED <<loc, input, vc>>
    /\ UNCHANGED <<fixed, devstate, file, gpu, mem, mapped, bound, cbstate,
                   cmds, calls, nfail>>


(***************************************************************************)
(* init_image, lines 155-243: the three resources.  Each of the call       *)
(* shapes below is used at several call sites; no result is looked at.     *)
(***************************************************************************)
Fill(n, b) == [k \in 1..n |-> b]

\* what freshly allocated memory may hold.  The image is tiled: its texels are
\* kept in `image`, not as bytes of its memory.
FillBytes == {0, 255}
FreshContent(memory, size) ==
    IF memory = "dst_image_mem" THEN {<<>>} ELSE {Fill(size, b) : b \in FillBytes}

\* vkCreateBuffer
CreateBuffer(site, buffer, next) ==
    /\ pc = site
    /\ \/ /\ vc.device # VK_NULL_HANDLE
          /\ vc' = [vc EXCEPT ![buffer] = 1]
          /\ calls' = Append(calls, Call("vkCreateBuffer", 0, TRUE))
          /\ pc' = next
          /\ UNCHANGED <<fixed, devstate, output, loc, gpu, mem, mapped, bound,
                         cbstate, cmds, nfail, input>>
       \/ vc.device # VK_NULL_HANDLE /\ EnvFail("vkCreateBuffer", 0, next)
       \/ vc.device = VK_NULL_HANDLE /\ Undefined("vkCreateBuffer", 0, next)

\* vkGetBufferMemoryRequirements / vkGetImageMemoryRequirements: returns void
GetMemoryRequirements(site, resource, size, typeBits, next) ==
    /\ pc = site
    /\ \/ /\ vc.device # VK_NULL_HANDLE /\ vc[resource] # VK_NULL_HANDLE
          /\ \E bits \in typeBits :
                loc' = [loc EXCEPT !.requirements =
                           [init |-> TRUE, size |-> size, memoryTypeBits |-> bits]]
          /\ calls' = Append(calls, Call("vkGetMemoryRequirements", 0, TRUE))
          /\ pc' = next
          /\ UNCHANGED <<fixed, devstate, output, vc, gpu, mem, mapped, bound,
                         cbstate, cmds, nfail, input>>
       \/ /\ ~(vc.device # VK_NULL_HANDLE /\ vc[resource] # VK_NULL_HANDLE)
          /\ Undefined("vkGetMemoryRequirements", 0, next)

\* VkMemoryRequirements requirements (line 155) is read before any query wrote it
IndeterminateRequirements ==
    {[init |-> FALSE, size |-> s, memoryTypeBits |-> b] :
        s \in {0, vc.size}, b \in 0..(Pow2(vc.memory_properties.memoryTypeCount + 1) - 1)}

ReadRequirements ==
    IF loc.requirements.init THEN {loc.requirements} ELSE IndeterminateRequirements

ValidTypeIndex(mp, idx) == 0 <= idx /\ idx < mp.memoryTypeCount

\* vkAllocateMemory with .memoryTypeIndex = find_image_memory(...)
AllocateMemory(site, memory, host, protected, next) ==
    /\ pc = site
    /\ \/ /\ vc.device # VK_NULL_HANDLE
          /\ \E r \in ReadRequirements :
               LET mp == vc.memory_properties
                   idx == find_image_memory(mp, r.memoryTypeBits, host, protected)
               IN \/ /\ ValidTypeIndex(mp, idx) /\ r.size > 0
                     /\ \E data \in FreshContent(memory, r.size) :
                           mem' = Append(mem, [type |-> idx, flags |-> mp.memoryTypes[idx],
                                               data |-> data])
                     /\ vc' = [vc EXCEPT ![memory] = Len(mem) + 1]
                     /\ calls' = Append(calls, Call("vkAllocateMemory", idx, TRUE))
                     /\ pc' = next
                     /\ UNCHANGED <<fixed, devstate, output, loc, gpu, mapped, bound,
                                    cbstate, cmds, nfail, input>>
                  \/ /\ ValidTypeIndex(mp, idx) /\ r.size > 0
                     /\ EnvFail("vkAllocateMemory", idx, next)
                  \/ \* the sentinel -1, or an index past the table: the
                     \* implementation rejects the call or dies in it
                     /\ ~(ValidTypeIndex(mp, idx) /\ r.size > 0)
                     /\ Undefined("vkAllocateMemory", idx, next)
       \/ vc.device = VK_NULL_HANDLE /\ Undefined("vkAllocateMemory", 0, next)

\* vkBindBufferMemory / vkBindImageMemory at offset 0
BindMemory(site, resource, memory, next) ==
    /\ pc = site
    /\ LET valid == /\ vc.device # VK_NULL_HANDLE
                    /\ vc[resource] # VK_NULL_HANDLE
                    /\ vc[memory] # VK_NULL_HANDLE
       IN \/ /\ valid
             /\ bound' = [bound EXCEPT ![resource] = vc[memory]]
             /\ calls' = Append(calls, Call("vkBindMemory", vc[memory], TRUE))
             /\ pc' = next
             /\ UNCHANGED <<fixed, devstate, output, vc, loc, gpu, mem, mapped,
                            cbstate, cmds, nfail, input>>
          \/ valid /\ EnvFail("vkBindMemory", vc[memory], next)
          \/ ~valid /\ Undefined("vkBindMemory", vc[memory], next)

\* vkMapMemory(vc->device, vc-><memory>, 0, vc->size, 0, &map)
Mappable(h) ==
    /\ vc.device # VK_NULL_HANDLE
    /\ h # VK_NULL_HANDLE
    /\ HOST_VISIBLE \in mem[h].flags
    /\ mapped = 0

MapMemory(site, memory, next) ==
    /\ pc = site
    /\ \/ /\ Mappable(vc[memory])
          /\ loc' = [loc EXCEPT !.map = vc[memory]]
          /\ mapped' = vc[memory]
          /\ calls' = Append(calls, Call("vkMapMemory", vc[memory], TRUE))
          /\ pc' = next
          /\ UNCHANGED <<fixed, devstate, output, vc, gpu, mem, bound,
                         cbstate, cmds, nfail, input>>
       \/ Mappable(vc[memory]) /\ EnvFail("vkMapMemory", vc[memory], next)
       \/ ~Mappable(vc[memory]) /\ Undefined("vkMapMemory", vc[memory], next)

\* vkUnmapMemory: returns void; the pointer map is dead afterwards
UnmapMemory(site, memory, next) ==
    /\ pc = site
    /\ LET valid == mapped # 0 /\ mapped = vc[memory]
       IN /\ calls' = Append(calls, Call("vkUnmapMemory", vc[memory], valid))
          /\ mapped' = IF valid THEN 0 ELSE mapped
          /\ pc' \in IF valid THEN {next} ELSE {"crashed", next}
    /\ loc' = [loc EXCEPT !.map = INDETERMINATE, !.pixbuf = NoPixbuf]
    /\ UNCHANGED <<fixed, devstate, output, vc, gpu, mem, bound,
                   cbstate, cmds, nfail, input>>

\* SRC, lines 157-187
Src_vkCreateBuffer ==
    CreateBuffer("src.vkCreateBuffer", "src_buffer", "src.vkGetBufferMemoryRequirements")
Src_vkGetBufferMemoryRequirements ==
    GetMemoryRequirements("src.vkGetBufferMemoryRequirements", "src_buffer", vc.size,
                          BufferTypeBits(vc.memory_properties), "src.vkAllocateMemory")
Src_vkAllocateMemory ==
    AllocateMemory("src.vkAllocateMemory", "src_mem", TRUE, FALSE, "src.vkBindBufferMemory")
Src_vkBindBufferMemory ==
    BindMemory("src.vkBindBufferMemory", "src_buffer", "src_mem", "src.vkMapMemory")
Src_vkMapMemory ==
    MapMemory("src.vkMapMemory", "src_mem", "memcpy")

\* line 184: memcpy(map, gdk_pixbuf_read_pixels(pixbuf), vc->size)
Src_memcpy ==
    /\ pc = "memcpy"
    /\ \/ /\ loc.map # INDETERMINATE
          /\ mem' = [mem EXCEPT ![loc.map].data =
                        [k \in 1..Len(@) |-> IF k <= vc.size THEN loc.pixbuf.pixels[k]
                                             ELSE @[k]]]
          /\ calls' = Append(calls, Call("memcpy", loc.map, TRUE))
          /\ pc' = "src.vkUnmapMemory"
       \/ /\ loc.map = INDETERMINATE
          /\ UNCHANGED mem
          /\ calls' = Append(calls, Call("memcpy", loc.map, FALSE))
          /\ pc' \in {"crashed", "src.vkUnmapMemory"}
    /\ UNCHANGED <<fixed, devstate, output, vc, loc, gpu, mapped, bound,
                   cbstate, cmds, nfail, input>>

\* lines 185-187
Src_vkUnmapMemory ==
    UnmapMemory("src.vkUnmapMemory", "src_mem", "vkCreateImage")

\* DST, lines 189-217: the protected image, created in layout UNDEFINED
Img_vkCreateImage ==
    /\ pc = "vkCreateImage"
    /\ \/ /\ vc.device # VK_NULL_HANDLE
          /\ vc' = [vc EXCEPT !.dst_image = 1]
          /\ layout' = "UNDEFINED"
          /\ calls' = Append(calls, Call("vkCreateImage", 0, TRUE))
          /\ pc' = "vkGetImageMemoryRequirements"
          /\ UNCHANGED <<fixed, image, work, devlog, output, loc, gpu, mem, mapped,
                         bound, cbstate, cmds, nfail, input>>
       \/ vc.device # VK_NULL_HANDLE /\ EnvFail("vkCreateImage", 0, "vkGetImageMemoryRequirements")
       \/ vc.device = VK_NULL_HANDLE /\ Undefined("vkCreateImage", 0, "vkGetImageMemoryRequirements")

Img_vkGetImageMemoryRequirements ==
    GetMemoryRequirements("vkGetImageMemoryRequirements", "dst_image",
                          vc.width * vc.height * n_channels,
                          ImageTypeBits(vc.memory_properties), "img.vkAllocateMemory")
Img_vkAllocateMemory ==
    AllocateMemory("img.vkAllocateMemory", "dst_image_mem", FALSE, TRUE, "vkBindImageMemory")
Img_vkBindImageMemory ==
    BindMemory("vkBindImageMemory", "dst_image", "dst_image_mem", "dst.vkCreateBuffer")

\* OUTPUT MEMORY, lines 219-242
Dst_vkCreateBuffer ==
    CreateBuffer("dst.vkCreateBuffer", "dst_buffer", "dst.vkGetBufferMemoryRequirements")
Dst_vkGetBufferMemoryRequirements ==
    GetMemoryRequirements("dst.vkGetBufferMemoryRequirements", "dst_buffer", vc.size,
                          BufferTypeBits(vc.memory_properties), "dst.vkAllocateMemory")
Dst_vkAllocateMemory ==
    AllocateMemory("dst.vkAllocateMemory", "dst_mem", TRUE, FALSE, "dst.vkBindBufferMemory")
Dst_vkBindBufferMemory ==
    BindMemory("dst.vkBindBufferMemory", "dst_buffer", "dst_mem", "vkCreateCommandPool")


(***************************************************************************)
(* main, lines 281-398: the command buffer.                                *)
(***************************************************************************)
UNDEFINED == "UNDEFINED"
TRANSFER_DST_OPTIMAL == "TRANSFER_DST_OPTIMAL"
TRANSFER_SRC_OPTIMAL == "TRANSFER_SRC_OPTIMAL"

NoRegion == [bufferRowLength |-> 0, bufferImageHeight |-> 0, width |-> 0, height |-> 0]

\* a region whose row length is the row stride in bytes instead of texels
CopyRegion_StrideAsRowLength ==
    [bufferRowLength |-> vc.row_stride, bufferImageHeight |-> vc.height,
     width |-> vc.width, height |-> vc.height]

\* VkBufferImageCopy of lines 333-345 and 374-386
CopyRegion ==
    [bufferRowLength |-> vc.width, bufferImageHeight |-> vc.height,
     width |-> vc.width, height |-> vc.height]

\* lines 306-330
CmdBarrierA ==
    [op |-> "vkCmdPipelineBarrier", buffer |-> "src_buffer",
     oldLayout |-> UNDEFINED, newLayout |-> TRANSFER_DST_OPTIMAL, region |-> NoRegion]

\* lines 332-345
CmdCopyBufferToImage ==
    [op |-> "vkCmdCopyBufferToImage", buffer |-> "src_buffer",
     oldLayout |-> TRANSFER_DST_OPTIMAL, newLayout |-> TRANSFER_DST_OPTIMAL,
     region |-> CopyRegion]

\* barrier B with the layouts of barrier A pasted in
CmdBarrierB_SameLayout ==
    [op |-> "vkCmdPipelineBarrier", buffer |-> "dst_buffer",
     oldLayout |-> UNDEFINED, newLayout |-> TRANSFER_DST_OPTIMAL,
     region |-> NoRegion]

\* lines 347-371
CmdBarrierB ==
    [op |-> "vkCmdPipelineBarrier", buffer |-> "dst_buffer",
     oldLayout |-> TRANSFER_DST_OPTIMAL, newLayout |-> TRANSFER_SRC_OPTIMAL,
     region |-> NoRegion]

\* lines 373-386
CmdCopyImageToBuffer ==
    [op |-> "vkCmdCopyImageToBuffer", buffer |-> "dst_buffer",
     oldLayout |-> TRANSFER_SRC_OPTIMAL, newLayout |-> TRANSFER_SRC_OPTIMAL,
     region |-> CopyRegion]

\* lines 281-289
Main_vkCreateCommandPool ==
    /\ pc = "vkCreateCommandPool"
    /\ \/ /\ vc.device # VK_NULL_HANDLE
          /\ vc' = [vc EXCEPT !.cmd_pool = 1]
          /\ calls' = Append(calls, Call("vkCreateCommandPool", 0, TRUE))
          /\ pc' = "vkAllocateCommandBuffers"
          /\ UNCHANGED <<fixed, devstate, output, loc, gpu, mem, mapped, bound,
                         cbstate, cmds, nfail, input>>
       \/ vc.device # VK_NULL_HANDLE /\ EnvFail("vkCreateCommandPool", 0, "vkAllocateCommandBuffers")
       \/ vc.device = VK_NULL_HANDLE /\ Undefined("vkCreateCommandPool", 0, "vkAllocateCommandBuffers")

\* lines 291-298; cmd_buffer is an uninitialised local until the call writes it
Main_vkAllocateCommandBuffers ==
    /\ pc = "vkAllocateCommandBuffers"
    /\ LET valid == vc.device # VK_NULL_HANDLE /\ vc.cmd_pool # VK_NULL_HANDLE
       IN \/ /\ valid
             /\ loc' = [loc EXCEPT !.cmd_buffer = 1]
             /\ cbstate' = "initial"
             /\ calls' = Append(calls, Call("vkAllocateCommandBuffers", 0, TRUE))
             /\ pc' = "vkBeginCommandBuffer"
             /\ UNCHANGED <<fixed, devstate, output, vc, gpu, mem, mapped, bound,
                            cmds, nfail, input>>
          \/ valid /\ EnvFail("vkAllocateCommandBuffers", 0, "vkBeginCommandBuffer")
          \/ ~valid /\ Undefined("vkAllocateCommandBuffers", 0, "vkBeginCommandBuffer")

\* lines 300-304
Main_vkBeginCommandBuffer ==
    /\ pc = "vkBeginCommandBuffer"
    /\ LET valid == loc.cmd_buffer # INDETERMINATE /\ cbstate = "initial"
       IN \/ /\ valid
             /\ cbstate' = "recording"
             /\ calls' = Append(calls, Call("vkBeginCommandBuffer", 0, TRUE))
             /\ pc' = "barrier A"
             /\ UNCHANGED <<fixed, devstate, output, vc, loc, gpu, mem, mapped, bound,
                            cmds, nfail, input>>
          \/ valid /\ EnvFail("vkBeginCommandBuffer", 0, "barrier A")
          \/ ~valid /\ Undefined("vkBeginCommandBuffer", 0, "barrier A")

\* vkCmd*: returns void; needs a command buffer that is recording.  The handles
\* a command names are only followed when the device executes it.
Record(site, cmd, next) ==
    /\ pc = site
    /\ LET valid == loc.cmd_buffer # INDETERMINATE /\ cbstate = "recording"
       IN \/ /\ valid
             /\ cmds' = Append(cmds, cmd)
             /\ calls' = Append(calls, Call(cmd.op, 0, TRUE))
             /\ pc' = next
             /\ UNCHANGED <<fixed, devstate, output, vc, loc, gpu, mem, mapped, bound,
                            cbstate, nfail, input>>
          \/ ~valid /\ Undefined(cmd.op, 0, next)

Main_BarrierA == Record("barrier A", CmdBarrierA, "vkCmdCopyBufferToImage")
Main_vkCmdCopyBufferToImage ==
    Record("vkCmdCopyBufferToImage", CmdCopyBufferToImage, "barrier B")
Main_BarrierB == Record("barrier B", CmdBarrierB, "vkCmdCopyImageToBuffer")
Main_vkCmdCopyImageToBuffer ==
    Record("vkCmdCopyImageToBuffer", CmdCopyImageToBuffer, "vkEndCommandBuffer")

\* line 388
Main_vkEndCommandBuffer ==
    /\ pc = "vkEndCommandBuffer"
    /\ LET valid == loc.cmd_buffer # INDETERMINATE /\ cbstate = "recording"
       IN \/ /\ valid
             /\ cbstate' = "executable"
             /\ calls' = Append(calls, Call("vkEndCommandBuffer", 0, TRUE))
             /\ pc' = "vkQueueSubmit"
             /\ UNCHANGED <<fixed, devstate, output, vc, loc, gpu, mem, mapped, bound,
                            cmds, nfail, input>>
          \/ /\ valid
             /\ nfail < MaxFailures
             /\ nfail' = nfail + 1
             /\ cbstate' = "invalid"
             /\ calls' = Append(calls, Call("vkEndCommandBuffer", 0, FALSE))
             /\ pc' = "vkQueueSubmit"
             /\ UNCHANGED <<fixed, devstate, output, vc, loc, gpu, mem, mapped, bound,
                            cmds, input>>
          \/ ~valid /\ Undefined("vkEndCommandBuffer", 0, "vkQueueSubmit")

\* every resource a recorded command names has memory bound
ResourcesBound ==
    \A i \in 1..Len(cmds) : bound[cmds[i].buffer] # 0 /\ bound.dst_image # 0

\* lines 390-396: one submission, no semaphore, no fence
Main_vkQueueSubmit ==
    /\ pc = "vkQueueSubmit"
    /\ LET valid == /\ vc.queue # VK_NULL_HANDLE
                    /\ loc.cmd_buffer # INDETERMINATE /\ cbstate = "executable"
                    /\ ResourcesBound
       IN \/ /\ valid
             /\ work' = cmds
             /\ calls' = Append(calls, Call("vkQueueSubmit", 0, TRUE))
             /\ pc' = "vkDeviceWaitIdle"
             /\ UNCHANGED <<fixed, image, layout, devlog, output, vc, loc, gpu, mem,
                            mapped, bound, cbstate, cmds, nfail, input>>
          \/ valid /\ EnvFail("vkQueueSubmit", 0, "vkDeviceWaitIdle")
          \/ ~valid /\ Undefined("vkQueueSubmit", 0, "vkDeviceWaitIdle")

\* line 398: returns VK_SUCCESS once the device is idle; an error return does
\* not wait.  The result is dropped.
Main_vkDeviceWaitIdle ==
    /\ pc = "vkDeviceWaitIdle"
    /\ \/ /\ vc.device # VK_NULL_HANDLE
          /\ work = <<>>
          /\ calls' = Append(calls, Call("vkDeviceWaitIdle", 0, TRUE))
          /\ pc' = "out.vkMapMemory"
          /\ UNCHANGED rest
       \/ vc.device # VK_NULL_HANDLE /\ EnvFail("vkDeviceWaitIdle", 0, "out.vkMapMemory")
       \/ vc.device = VK_NULL_HANDLE /\ Undefined("vkDeviceWaitIdle", 0, "out.vkMapMemory")

(***************************************************************************)
(* The device executes the submitted commands in order.                    *)
(* A region addresses texel (x, y) of the buffer at byte                   *)
(*   (y * bufferRowLength + x) * 4   (bufferOffset = 0, R8G8B8A8).         *)
(* A write by a protected submission into memory that is not protected may *)
(* be stored or dropped.                                                   *)
(***************************************************************************)
RowLength(region) ==
    IF region.bufferRowLength = 0 THEN region.width ELSE region.bufferRowLength

BufferOffset(region, x, y, c) == (y * RowLength(region) + x) * n_channels + c

\* the texels of the region, read from the buffer's bytes
CopyBufferToImage(data, region) ==
    [k \in 1..(region.width * region.height * n_channels) |->
        LET t == (k - 1) \div n_channels
            off == BufferOffset(region, t % region.width, t \div region.width,
                                (k - 1) % n_channels)
        IN IF off < Len(data) THEN data[off + 1] ELSE 0]

\* the buffer's bytes after the texels of the region were written into them
CopyImageToBuffer(texels, data, region) ==
    [j \in 1..Len(data) |->
        LET t == (j - 1) \div n_channels
            x == t % RowLength(region)
            y == t \div RowLength(region)
            k == (y * region.width + x) * n_channels + ((j - 1) % n_channels) + 1
        IN IF x < region.width /\ y < region.height /\ k <= Len(texels)
           THEN texels[k] ELSE data[j]]

Executed(cmd, seen, stored) ==
    [op |-> cmd.op, layout |-> seen, newLayout |-> cmd.newLayout, stored |-> stored]

WriteOutcomes(h) == IF PROTECTED \in mem[h].flags THEN {TRUE} ELSE {TRUE, FALSE}

Device_Execute ==
    /\ pc \notin Terminal
    /\ work # <<>>
    /\ LET cmd == Head(work)
       IN \/ /\ cmd.op = "vkCmdPipelineBarrier"
             /\ layout' = cmd.newLayout
             /\ image' = IF cmd.oldLayout = UNDEFINED THEN <<>> ELSE image
             /\ devlog' = Append(devlog, Executed(cmd, layout, TRUE))
             /\ UNCHANGED mem
          \/ /\ cmd.op = "vkCmdCopyBufferToImage"
             /\ \E stored \in WriteOutcomes(bound.dst_image) :
                  /\ image' = IF stored
                              THEN CopyBufferToImage(mem[bound[cmd.buffer]].data, cmd.region)
                              ELSE image
                  /\ devlog' = Append(devlog, Executed(cmd, layout, stored))
             /\ UNCHANGED <<layout, mem>>
          \/ /\ cmd.op = "vkCmdCopyImageToBuffer"
             /\ \E stored \in WriteOutcomes(bound[cmd.buffer]) :
                  /\ mem' = IF stored /\ image # <<>>
                            THEN [mem EXCEPT ![bound[cmd.buffer]].data =
                                     CopyImageToBuffer(image, @, cmd.region)]
                            ELSE mem
                  /\ devlog' = Append(devlog, Executed(cmd, layout, stored /\ image # <<>>))
             /\ UNCHANGED <<layout, image>>
    /\ work' = Tail(work)
    /\ UNCHANGED <<fixed, output, pc, vc, loc, gpu, mapped, bound, cbstate, cmds,
                   calls, nfail, input>>


(***************************************************************************)
(* write_image_output, lines 245-266.                                      *)
(***************************************************************************)
\* a readback that maps the memory of the image
Out_vkMapMemory_ImageMemory ==
    MapMemory("out.vkMapMemory", "dst_image_mem", "gdk_pixbuf_save")

Out_vkMapMemory ==
    MapMemory("out.vkMapMemory", "dst_mem", "gdk_pixbuf_save")

\* what the encoder reads from a pixbuf over `data`: width * 4 bytes of each of
\* the height rows, the rows rowstride bytes apart
Encode(data, width, height, rowstride) ==
    [k \in 1..(width * height * n_channels) |->
        LET y == (k - 1) \div (width * n_channels)
            off == y * rowstride + ((k - 1) % (width * n_channels))
        IN IF off < Len(data) THEN data[off + 1] ELSE 0]

\* lines 251-259: gdk_pixbuf_new_from_data(map, RGB, true, 8, width, height, row_stride)
OutputPixbuf(data) ==
    [width |-> vc.width, height |-> vc.height, rowstride |-> vc.row_stride,
     byte_length |-> Len(data), pixels |-> data]

SavedFile(pixbuf) ==
    [written |-> TRUE, width |-> pixbuf.width, height |-> pixbuf.height,
     pixels |-> Encode(pixbuf.pixels, pixbuf.width, pixbuf.height, pixbuf.rowstride)]

\* lines 251-263: g_error aborts when the file cannot be written
Out_gdk_pixbuf_save ==
    /\ pc = "gdk_pixbuf_save"
    /\ \/ /\ loc.map # INDETERMINATE
          /\ file' = SavedFile(OutputPixbuf(mem[loc.map].data))
          /\ calls' = Append(calls, Call("gdk_pixbuf_save", loc.map, TRUE))
          /\ pc' = "out.vkUnmapMemory"
          /\ UNCHANGED stderr
       \/ \* the encoder reads through a pointer no call has set
          /\ loc.map = INDETERMINATE
          /\ \/ /\ \E b \in FillBytes : file' = SavedFile(OutputPixbuf(Fill(vc.size, b)))
                /\ pc' = "out.vkUnmapMemory"
             \/ /\ pc' = "crashed"
                /\ UNCHANGED file
          /\ calls' = Append(calls, Call("gdk_pixbuf_save", loc.map, FALSE))
          /\ UNCHANGED stderr
       \/ /\ stderr' = Append(stderr, "Could not write output file")
          /\ calls' = Append(calls, Call("gdk_pixbuf_save", loc.map, FALSE))
          /\ pc' = "aborted"
          /\ UNCHANGED file
    /\ UNCHANGED <<fixed, devstate, vc, loc, gpu, mem, mapped, bound, cbstate, cmds,
                   nfail, input>>

\* line 265
Out_vkUnmapMemory ==
    UnmapMemory("out.vkUnmapMemory", "dst_mem", "return")

\* line 402
Main_Return ==
    /\ pc = "return"
    /\ pc' = "done"
    /\ UNCHANGED <<calls, rest>>

Next ==
    \/ Main_CheckArguments
    \/ Init_vkCreateInstance
    \/ Init_vkEnumeratePhysicalDevices
    \/ Init_SelectPhysicalDevice
    \/ Init_vkGetPhysicalDeviceFeatures2
    \/ Init_vkGetPhysicalDeviceMemoryProperties
    \/ Init_vkGetPhysicalDeviceQueueFamilyProperties
    \/ Init_vkCreateDevice
    \/ Init_vkGetDeviceQueue
    \/ Image_gdk_pixbuf_new_from_file
    \/ Src_vkCreateBuffer
    \/ Src_vkGetBufferMemoryRequirements
    \/ Src_vkAllocateMemory
    \/ Src_vkBindBufferMemory
    \/ Src_vkMapMemory
    \/ Src_memcpy
    \/ Src_vkUnmapMemory
    \/ Img_vkCreateImage
    \/ Img_vkGetImageMemoryRequirements
    \/ Img_vkAllocateMemory
    \/ Img_vkBindImageMemory
    \/ Dst_vkCreateBuffer
    \/ Dst_vkGetBufferMemoryRequirements
    \/ Dst_vkAllocateMemory
    \/ Dst_vkBindBufferMemory
    \/ Main_vkCreateCommandPool
    \/ Main_vkAllocateCommandBuffers
    \/ Main_vkBeginCommandBuffer
    \/ Main_BarrierA
    \/ Main_vkCmdCopyBufferToImage
    \/ Main_BarrierB
    \/ Main_vkCmdCopyImageToBuffer
    \/ Main_vkEndCommandBuffer
    \/ Main_vkQueueSubmit
    \/ Main_vkDeviceWaitIdle
    \/ Device_Execute
    \/ Out_vkMapMemory
    \/ Out_gdk_pixbuf_save
    \/ Out_vkUnmapMemory
    \/ Main_Return

Spec == Init /\ [][Next]_vars


(***************************************************************************)
(* The classifier on its own: find_image_memory applied to any table of at *)
(* most MaxTypes reported types, any mask over the entries 0..count and    *)
(* any pair of requests.                                                   *)
(***************************************************************************)
AllTables ==
    UNION {[memoryTypeCount : {n}, memoryTypes : [0..n -> PropertyFlags]] : n \in 0..MaxTypes}

InitFind ==
    /\ pc = "find_image_memory"
    /\ argc = 3
    /\ \E mp \in AllTables : vc = [ZeroData EXCEPT !.memory_properties = mp]
    /\ NothingYet
    /\ probe \in [allowed : 0..(Pow2(vc.memory_properties.memoryTypeCount + 1) - 1),
                  host : BOOLEAN, protected : BOOLEAN]
    /\ found = [called |-> FALSE, ret |-> -1, read |-> {}]

Find_Call ==
    /\ pc = "find_image_memory"
    /\ found' = [called |-> TRUE,
                 ret |-> find_image_memory(vc.memory_properties, probe.allowed,
                                           probe.host, probe.protected),
                 read |-> find_image_memory_reads(vc.memory_properties, probe.allowed,
                                                  probe.host, probe.protected)]
    /\ pc' = "returned"
    /\ UNCHANGED <<argc, vc, loc, gpu, mem, mapped, bound, image, layout, cbstate,
                   cmds, work, devlog, file, stderr, calls, nfail, input, probe>>


NextFind == Find_Call

SpecFind == InitFind /\ [][NextFind]_vars

\* the same, with masks that name reported entries only (bits below the count)
InitFindReported ==
    /\ InitFind
    /\ probe.allowed < Pow2(vc.memory_properties.memoryTypeCount)

SpecFindReported == InitFindReported /\ [][NextFind]_vars

(***************************************************************************)
(* Properties.                                                             *)
(***************************************************************************)
Min(S) == CHOOSE x \in S : \A y \in S : x <= y

IsPrefix(s, t) == Len(s) <= Len(t) /\ \A i \in 1..Len(s) : s[i] = t[i]

CallsOf(op) == {i \in 1..Len(calls) : calls[i].op = op}
Called(op) == CallsOf(op) # {}

\* no call of the host has failed and the device has stored every write
NoStepFailed ==
    /\ \A i \in 1..Len(calls) : calls[i].ok
    /\ \A i \in 1..Len(devlog) : devlog[i].stored

\* the entries of the table that satisfy all of device-local, the requested
\* host visibility and the requested protection, among those the mask allows
Eligible(mp, allowed, host, protected) ==
    {i \in 0..(mp.memoryTypeCount - 1) :
        BitSet(allowed, i) /\ WantedFlags(host, protected) \subseteq mp.memoryTypes[i]}

\* C3: find_image_memory returns the lowest index whose bit is set in the mask
\* and whose flags contain device-local and host-visible (when requested) and
\* protected (when requested), and -1 exactly when there is no such index.
C3_LowestEligibleOrNotFound ==
    found.called =>
        LET E == Eligible(vc.memory_properties, probe.allowed, probe.host, probe.protected)
        IN found.ret = IF E = {} THEN -1 ELSE Min(E)

\* C10: find_image_memory reads only the entries 0..memoryTypeCount-1 and
\* returns -1 or an index below memoryTypeCount.
C10_ScanWithinTable ==
    found.called =>
        /\ found.read \subseteq 0..(vc.memory_properties.memoryTypeCount - 1)
        /\ found.ret = -1 \/ (0 <= found.ret /\ found.ret < vc.memory_properties.memoryTypeCount)


\* the pixels a decoder returns for the file the encoder wrote from `pixbuf`
DecodedPixels(pixbuf) ==
    Encode(pixbuf.pixels, pixbuf.width, pixbuf.height, pixbuf.rowstride)

AfterWait == {"out.vkMapMemory", "gdk_pixbuf_save", "out.vkUnmapMemory", "return", "done"}

\* C1: in a run in which no step fails, once the device-idle wait has returned
\* the destination buffer holds byte for byte what was written into the source
\* buffer, and the output file has the input's width, height and pixels (the
\* output pixbuf is built with the input's row stride).
C1_PixelRoundTrip ==
    /\ (pc \in AfterWait /\ NoStepFailed) =>
          /\ mem[vc.dst_mem].data = input.pixels
          /\ mem[vc.dst_mem].data = mem[vc.src_mem].data
          /\ vc.row_stride = input.rowstride
    /\ (file.written /\ NoStepFailed) =>
          /\ file.width = input.width
          /\ file.height = input.height
          /\ file.pixels = DecodedPixels(input)

C1_Witness ==
    /\ pc = "done" /\ NoStepFailed /\ file.written
    /\ input.width > 1 /\ input.height > 1
    /\ file.pixels = DecodedPixels(input)
    /\ mem[vc.dst_mem].data = input.pixels

MapCalls == CallsOf("vkMapMemory")

\* C2: every map call is handed src_mem or dst_mem, and the allocation that
\* backs the protected image is never handed to a map call nor mapped.
C2_ImageMemoryNeverMapped ==
    /\ \A i \in MapCalls :
          /\ calls[i].a \in {vc.src_mem, vc.dst_mem}
          /\ vc.dst_image_mem # VK_NULL_HANDLE => calls[i].a # vc.dst_image_mem
    /\ vc.dst_image_mem # VK_NULL_HANDLE => mapped # vc.dst_image_mem

C2_Witness ==
    /\ pc = "done"
    /\ vc.dst_image_mem # VK_NULL_HANDLE
    /\ Cardinality(MapCalls) = 2
    /\ \A i \in MapCalls : calls[i].ok
    /\ {calls[i].a : i \in MapCalls} = {vc.src_mem, vc.dst_mem}

AllBound == bound.src_buffer # 0 /\ bound.dst_image # 0 /\ bound.dst_buffer # 0

\* C4: once the three resources are bound, the source and the destination
\* buffer are bound to memory of a host-visible, unprotected type and the
\* protected image to memory of a protected type.
C4_ProtectionAsymmetry ==
    AllBound =>
        /\ HOST_VISIBLE \in mem[bound.src_buffer].flags
        /\ PROTECTED \notin mem[bound.src_buffer].flags
        /\ HOST_VISIBLE \in mem[bound.dst_buffer].flags
        /\ PROTECTED \notin mem[bound.dst_buffer].flags
        /\ PROTECTED \in mem[bound.dst_image].flags


ExpectedCommands ==
    << [op |-> "vkCmdPipelineBarrier", buffer |-> "src_buffer",
        oldLayout |-> "UNDEFINED", newLayout |-> "TRANSFER_DST_OPTIMAL",
        region |-> [bufferRowLength |-> 0, bufferImageHeight |-> 0, width |-> 0, height |-> 0]],
       [op |-> "vkCmdCopyBufferToImage", buffer |-> "src_buffer",
        oldLayout |-> "TRANSFER_DST_OPTIMAL", newLayout |-> "TRANSFER_DST_OPTIMAL",
        region |-> [bufferRowLength |-> input.width, bufferImageHeight |-> input.height,
                    width |-> input.width, height |-> input.height]],
       [op |-> "vkCmdPipelineBarrier", buffer |-> "dst_buffer",
        oldLayout |-> "TRANSFER_DST_OPTIMAL", newLayout |-> "TRANSFER_SRC_OPTIMAL",
        region |-> [bufferRowLength |-> 0, bufferImageHeight |-> 0, width |-> 0, height |-> 0]],
       [op |-> "vkCmdCopyImageToBuffer", buffer |-> "dst_buffer",
        oldLayout |-> "TRANSFER_SRC_OPTIMAL", newLayout |-> "TRANSFER_SRC_OPTIMAL",
        region |-> [bufferRowLength |-> input.width, bufferImageHeight |-> input.height,
                    width |-> input.width, height |-> input.height]] >>

\* what the device does with them: <<command, layout it finds, layout it leaves>>
ExpectedExecution ==
    << <<"vkCmdPipelineBarrier", "UNDEFINED", "TRANSFER_DST_OPTIMAL">>,
       <<"vkCmdCopyBufferToImage", "TRANSFER_DST_OPTIMAL", "TRANSFER_DST_OPTIMAL">>,
       <<"vkCmdPipelineBarrier", "TRANSFER_DST_OPTIMAL", "TRANSFER_SRC_OPTIMAL">>,
       <<"vkCmdCopyImageToBuffer", "TRANSFER_SRC_OPTIMAL", "TRANSFER_SRC_OPTIMAL">> >>

Execution == [i \in 1..Len(devlog) |-> <<devlog[i].op, devlog[i].layout, devlog[i].newLayout>>]

\* C5: the command buffer is recorded as barrier A, copy buffer-to-image,
\* barrier B, copy image-to-buffer and holds exactly these four once recording
\* has ended; the device takes the image from UNDEFINED to TRANSFER_DST_OPTIMAL
\* and then to TRANSFER_SRC_OPTIMAL, once each, and finds it in
\* TRANSFER_DST_OPTIMAL at the first copy and in TRANSFER_SRC_OPTIMAL at the second.
C5_BarrierOrdering ==
    /\ IsPrefix(cmds, ExpectedCommands)
    /\ cbstate = "executable" => cmds = ExpectedCommands
    /\ \E n \in 0..Len(cmds) : work = SubSeq(cmds, n + 1, Len(cmds))
    /\ IsPrefix(Execution, ExpectedExecution)
    /\ layout = IF Len(devlog) >= 3 THEN "TRANSFER_SRC_OPTIMAL"
                ELSE IF Len(devlog) >= 1 THEN "TRANSFER_DST_OPTIMAL"
                ELSE IF vc.dst_image # VK_NULL_HANDLE THEN "UNDEFINED" ELSE "none"

C5_Witness ==
    /\ pc = "done"
    /\ cmds = ExpectedCommands
    /\ Execution = ExpectedExecution
    /\ layout = "TRANSFER_SRC_OPTIMAL"

SaveCalls == CallsOf("gdk_pixbuf_save")

\* C6: the output file is written only in runs in which every call before the
\* write succeeded (a failing call ends the run where it fails).
C6_OutputOnlyAfterSuccess ==
    file.written => \A k \in SaveCalls : \A i \in 1..(k - 1) : calls[i].ok

Submits == CallsOf("vkQueueSubmit")

\* the host's own order of calls
HostOrder ==
    /\ \A s \in Submits :
          \E l \in CallsOf("vkUnmapMemory") :
             /\ l < s /\ calls[l].a = vc.src_mem
             /\ \E k \in CallsOf("memcpy") :
                   /\ k < l
                   /\ \E j \in CallsOf("vkMapMemory") : j < k /\ calls[j].a = vc.src_mem
    /\ Cardinality(Submits) <= 1
    /\ pc \in AfterWait => Cardinality(Submits) = 1
    /\ \A i \in SaveCalls \cup {m \in MapCalls : \E s \in Submits : s < m} :
          \E s \in Submits : \E w \in CallsOf("vkDeviceWaitIdle") : s < w /\ w < i

\* the host holds no buffer mapped while the device still has commands to execute
NoOverlap == mapped # 0 => work = <<>>

\* C7: the source buffer is mapped, written and unmapped before the one
\* submission; the destination buffer is mapped and read only after the
\* device-idle wait that follows the submission has returned; host and device
\* never access a resource in overlapping intervals.
C7_StrictAccessOrder == HostOrder /\ NoOverlap

\* C8: with fewer than two positional arguments the program reports a usage
\* error and ends before anything is initialised: no call is made, nothing is
\* created, allocated, recorded, submitted or written.
C8_UsageValidation ==
    argc < 3 =>
        /\ pc \in {"main", "aborted"}
        /\ pc = "aborted" => stderr = <<"Require 2 arguments : input_file output_file">>
        /\ calls = <<>>
        /\ vc = ZeroData
        /\ mem = <<>> /\ cmds = <<>> /\ work = <<>> /\ devlog = <<>>
        /\ ~file.written

C8_Witness ==
    argc < 3 /\ pc = "aborted" /\ stderr # <<>> /\ calls = <<>>

\* C9: vkCreateDevice is called only after an enumeration that succeeded with
\* at least one device, on the first enumerated device, which reports protected
\* memory and whose queue family 0 supports graphics; nothing is created or
\* allocated before it.
C9_DeviceSelectorPreconditions ==
    /\ (Called("vkCreateDevice") \/ vc.device # VK_NULL_HANDLE) =>
          /\ \E i \in 1..Len(calls) :
                /\ calls[i].op = "vkEnumeratePhysicalDevices"
                /\ calls[i].ok /\ calls[i].a > 0
                /\ \E j \in (i + 1)..Len(calls) : calls[j].op = "vkCreateDevice"
          /\ vc.physical_device = 1
          /\ gpu.protectedMemory
          /\ Len(gpu.queueFamilies) > 0
          /\ GRAPHICS \in gpu.queueFamilies[1]
    /\ (loc.pd # <<>> /\ vc.physical_device \notin {VK_NULL_HANDLE, INDETERMINATE}) =>
          gpu = loc.pd[1]
    /\ ~Called("vkCreateDevice") =>
          /\ mem = <<>> /\ cmds = <<>> /\ work = <<>> /\ ~file.written
          /\ vc.device = VK_NULL_HANDLE /\ vc.queue = VK_NULL_HANDLE
          /\ vc.src_buffer = VK_NULL_HANDLE /\ vc.dst_image = VK_NULL_HANDLE
          /\ vc.dst_buffer = VK_NULL_HANDLE

C9_Witness ==
    /\ vc.device # VK_NULL_HANDLE /\ vc.queue # VK_NULL_HANDLE
    /\ pc = "gdk_pixbuf_new_from_file"
    /\ gpu.protectedMemory /\ GRAPHICS \in gpu.queueFamilies[1]

====
